---- MODULE Spec2Model ----
(***************************************************************************)
(* Promotion SaaS API (src/main.py, src/schemas.py): the request handlers  *)
(* over the two MongoDB collections "business" and "promotion", the        *)
(* filter they compile for the store, the document normalizer `serialize`  *)
(* and the read-time join of list_promotions.                              *)
(*                                                                         *)
(* Python values are tagged tuples: None, Str(chars), Bool(b), Oid(n),     *)
(* DateTime(n), List(seq), Dict(record).  A Python str is a sequence of    *)
(* one-character strings, so that parsing, rendering, upper/lower case and *)
(* regular-expression search are computed and not assumed.                 *)
(* Stored documents carry the fields the handlers read or write:           *)
(*   business : _id, name, description, industry                           *)
(*   promotion: _id, business_id, title, description, terms, tags,         *)
(*              is_active                                                  *)
(* (the other schema fields are stored and returned untouched by every     *)
(* handler and are left out).                                              *)
(***************************************************************************)
EXTENDS Integers, Sequences, FiniteSets, TLC

VARIABLES
    business,    \* db["business"]: sequence of documents, in insertion order
    promotion,   \* db["promotion"]: sequence of documents, in insertion order
    pc,          \* per worker: "idle", or the store call its handler makes next
    frame,       \* per worker: the local variables of the handler in flight
    resp,        \* the response being sent to a caller: [op, status, body]
    fn_pc,       \* pure-function harness: "in" (inputs drawn) or "out" (applied)
    fn_in,       \* pure-function harness: the inputs
    fn_out       \* pure-function harness: the result

vars == <<business, promotion, pc, frame, resp, fn_pc, fn_in, fn_out>>
api_vars == <<business, promotion, pc, frame, resp>>
fn_vars == <<fn_pc, fn_in, fn_out>>

(***************************************************************************)
(* Bounds of the model.                                                    *)
(***************************************************************************)
\* Hex digits of an ObjectId string (24 in bson; scaled down).
IdLen == 2
\* The store hands out the ObjectIds IdBase, IdBase + 1, ... (0x0a, 0x0b, ...:
\* their string forms contain letters, so upper and lower case differ).
IdBase == 10
\* Documents each collection may hold.
MaxBusiness == 2
MaxPromotion == 2
\* Largest explicit `limit` a caller passes.
MaxLimit == 1

\* Defaults of the listing endpoints' `limit` parameter.
DefaultBusinessLimit == 50
DefaultPromotionLimit == 100

\* The request workers: handlers run concurrently, one request per worker.
Procs == {"w1", "w2"}

(***************************************************************************)
(* Python values.                                                          *)
(***************************************************************************)
None == <<"None">>
Str(s) == <<"str", s>>
Bool(b) == <<"bool", b>>
Oid(n) == <<"ObjectId", n>>
DateTime(n) == <<"datetime", n>>
List(xs) == <<"list", xs>>
Dict(d) == <<"dict", d>>
\* A parameter the caller did not pass (the signature's default applies).
Absent == <<"absent">>

IsStr(v) == v[1] = "str"
IsList(v) == v[1] = "list"
IsOid(v) == v[1] = "ObjectId"

\* Python truthiness, as used by `if q:`, `if not doc:`, `if biz:`.
Truthy(v) ==
    CASE v = None -> FALSE
      [] v[1] = "bool" -> v[2]
      [] v[1] = "str" -> Len(v[2]) > 0
      [] v[1] = "list" -> Len(v[2]) > 0
      [] v[1] = "dict" -> DOMAIN v[2] # {}
      [] OTHER -> TRUE

\* dict.get(key): the value, or None when the key is missing.
DictGet(d, k) == IF k \in DOMAIN d THEN d[k] ELSE None

(***************************************************************************)
(* Characters: hex digits in both cases, and lower-casing.                 *)
(***************************************************************************)
HexLower == <<"0", "1", "2", "3", "4", "5", "6", "7", "8", "9", "a", "b", "c", "d", "e", "f">>
HexUpper == <<"0", "1", "2", "3", "4", "5", "6", "7", "8", "9", "A", "B", "C", "D", "E", "F">>

IsHex(c) == \E i \in 1..16 : HexLower[i] = c \/ HexUpper[i] = c
HexVal(c) == (CHOOSE i \in 1..16 : HexLower[i] = c \/ HexUpper[i] = c) - 1

LowerChar(c) ==
    IF \E i \in 11..16 : HexUpper[i] = c
    THEN HexLower[CHOOSE i \in 11..16 : HexUpper[i] = c]
    ELSE c
UpperChar(c) ==
    IF \E i \in 11..16 : HexLower[i] = c
    THEN HexUpper[CHOOSE i \in 11..16 : HexLower[i] = c]
    ELSE c
Upper(s) == [i \in 1..Len(s) |-> UpperChar(s[i])]

(***************************************************************************)
(* bson.ObjectId: parse from a string, render as a string.                 *)
(***************************************************************************)
RECURSIVE HexValue(_)
HexValue(s) ==
    IF s = <<>> THEN 0
    ELSE 16 * HexValue(SubSeq(s, 1, Len(s) - 1)) + HexVal(s[Len(s)])

RECURSIVE HexDigitsOf(_, _)
HexDigitsOf(n, width) ==
    IF width = 0 THEN <<>>
    ELSE Append(HexDigitsOf(n \div 16, width - 1), HexLower[(n % 16) + 1])

\* ObjectId(id_str) accepts exactly IdLen hex digits of either case.
ObjectIdValid(s) == Len(s) = IdLen /\ \A i \in 1..Len(s) : IsHex(s[i])

\* str(ObjectId): lower-case hex.
Render(n) == HexDigitsOf(n, IdLen)

\* Variant: the parse failure is swallowed and None is looked up.
to_object_id_swallowed(id_str) ==
    IF ObjectIdValid(id_str)
    THEN <<"ok", Oid(HexValue(id_str))>>
    ELSE <<"ok", None>>

\* to_object_id: the ObjectId, or HTTP 400 "Invalid id format".
to_object_id(id_str) ==
    IF ObjectIdValid(id_str)
    THEN <<"ok", Oid(HexValue(id_str))>>
    ELSE <<"raise", 400, "Invalid id format">>

(***************************************************************************)
(* serialize (main.py 30-38).  The result is <<"return", value>> or        *)
(* <<"raise", exception>>.                                                 *)
(***************************************************************************)
\* str(v) of the values an identifier field can hold.
PyStr(v) == IF IsOid(v) THEN Str(Render(v[2])) ELSE v

\* v.isoformat() for the values that have it, every other value unchanged.
IsoFormat(v) == IF v[1] = "datetime" THEN Str(<<"T">> \o Render(v[2])) ELSE v

serialize(doc) ==
    IF ~Truthy(doc) THEN <<"return", doc>>
    ELSE IF "_id" \notin DOMAIN doc[2] THEN <<"raise", "KeyError">>
    ELSE LET d == doc[2]
             keys == (DOMAIN d \ {"_id"}) \cup {"id"}
             popped == [k \in keys |-> IF k = "id" THEN PyStr(d["_id"]) ELSE d[k]]
         IN <<"return", Dict([k \in keys |-> IsoFormat(popped[k])])>>

\* serialize of a document read from a collection (it always has _id).
Serialized(d) == serialize(Dict(d))[2]

(***************************************************************************)
(* The store's query language, for the operators the handlers use:         *)
(* {} , $and, $or, {field: {$regex, $options: "i"}}, {field: value}.       *)
(***************************************************************************)
\* One pattern character against one text character: "." is the wildcard,
\* any other character matches itself, ignoring case under option "i".
CharMatches(pc_, c, ci) ==
    \/ pc_ = "."
    \/ IF ci THEN LowerChar(pc_) = LowerChar(c) ELSE pc_ = c

\* Unanchored search of the pattern in the text.
RegexSearch(pattern, text, ci) ==
    \E off \in 0..(Len(text) - Len(pattern)) :
        \A j \in 1..Len(pattern) : CharMatches(pattern[j], text[off + j], ci)

\* {field: {"$regex": pattern, "$options": "i"}}: a string value that the
\* pattern finds, or an array with such an element.
RegexMatches(v, pattern, ci) ==
    \/ IsStr(v) /\ RegexSearch(pattern, v[2], ci)
    \/ IsList(v) /\ \E i \in 1..Len(v[2]) :
           IsStr(v[2][i]) /\ RegexSearch(pattern, v[2][i][2], ci)

\* {field: value}: the value itself, or an array that contains it.
EqMatches(v, x) ==
    \/ v = x
    \/ IsList(v) /\ \E i \in 1..Len(v[2]) : v[2][i] = x

RECURSIVE Match(_, _)
Match(f, d) ==
    CASE f.op = "{}" -> TRUE
      [] f.op = "$and" -> \A i \in 1..Len(f.args) : Match(f.args[i], d)
      [] f.op = "$or" -> \E i \in 1..Len(f.args) : Match(f.args[i], d)
      [] f.op = "$regex" -> RegexMatches(DictGet(d, f.field), f.pattern, f.options = "i")
      [] f.op = "$eq" -> EqMatches(DictGet(d, f.field), f.value)

EmptyFilter == [op |-> "{}"]
Regex(field, q) == [op |-> "$regex", field |-> field, pattern |-> q[2], options |-> "i"]
Eq(field, v) == [op |-> "$eq", field |-> field, value |-> v]
Or(clauses) == [op |-> "$or", args |-> clauses]
And(clauses) == [op |-> "$and", args |-> clauses]

(***************************************************************************)
(* The filter compilers of the two listing endpoints.                      *)
(***************************************************************************)
\* list_businesses, lines 82-88.
business_filter(q) ==
    IF Truthy(q)
    THEN Or(<<Regex("name", q), Regex("description", q), Regex("industry", q)>>)
    ELSE EmptyFilter

\* list_promotions, lines 115-126: one clause list per criterion.
q_clauses(q) ==
    IF Truthy(q)
    THEN <<Or(<<Regex("title", q), Regex("description", q), Regex("terms", q)>>)>>
    ELSE <<>>
tag_clauses(tag) == IF Truthy(tag) THEN <<Eq("tags", tag)>> ELSE <<>>
business_id_clauses(business_id) ==
    IF Truthy(business_id) THEN <<Eq("business_id", business_id)>> ELSE <<>>
active_clauses(active) == IF active # None THEN <<Eq("is_active", active)>> ELSE <<>>

\* Variant: the signature's default is None.
active_param_none(active) == IF active = Absent THEN None ELSE active

\* The signature's default: active = True when the caller passes nothing.
active_param(active) == IF active = Absent THEN Bool(TRUE) ELSE active

and_clauses(q, tag, business_id, active) ==
    q_clauses(q) \o tag_clauses(tag) \o business_id_clauses(business_id)
        \o active_clauses(active)

\* list_promotions, lines 113-128.
promotion_filter(q, tag, business_id, active) ==
    LET clauses == and_clauses(q, tag, business_id, active)
    IN IF clauses # <<>> THEN And(clauses) ELSE EmptyFilter

(***************************************************************************)
(* The store gateway (database.py): insert-one and find-many.              *)
(***************************************************************************)
Take(s, n) == IF Len(s) <= n THEN s ELSE SubSeq(s, 1, n)

\* find(collection, filter, limit): the matching documents in the store's
\* iteration order, at most `limit` of them.
get_documents(coll, f, limit) ==
    LET Hit(d) == Match(f, d) IN Take(SelectSeq(coll, Hit), limit)

\* db[collection].find_one({"_id": oid}): the document, or None.
find_one(coll, oid) ==
    IF \E i \in 1..Len(coll) : coll[i]["_id"] = oid
    THEN Dict(coll[CHOOSE i \in 1..Len(coll) : coll[i]["_id"] = oid])
    ELSE None

\* insert(collection, entity): the entity's fields stored under a fresh _id.
create_document(coll, oid, entity) == Append(coll, ("_id" :> oid) @@ entity)

(***************************************************************************)
(* Requests: the inputs the callers send.  Text uses the letters a-f in    *)
(* both cases and "."; identifiers are well-formed in lower and upper      *)
(* case, of documents that exist or not, or malformed.                     *)
(***************************************************************************)
BusinessId(k) == Oid(IdBase + k - 1)
PromotionId(k) == Oid(IdBase + MaxBusiness + k - 1)

TooShortId == SubSeq(Render(IdBase), 1, IdLen - 1)
NonHexId == [i \in 1..IdLen |-> "z"]

\* Identifier strings of requests: of the first document in lower and upper
\* case, of the second, too short, not hexadecimal.
BusinessIdStrings ==
    { Render(BusinessId(1)[2]), Upper(Render(BusinessId(1)[2])),
      Render(BusinessId(2)[2]), TooShortId, NonHexId }
PromotionIdStrings ==
    { Render(PromotionId(1)[2]), Render(PromotionId(2)[2]), NonHexId }

\* Validated Business entities (schemas.py 20-32).
BusinessInputs ==
    { [name |-> Str(<<"A", "c", "e">>), description |-> None,
       industry |-> Str(<<"f", "a", "b">>)],
      [name |-> Str(<<"B", "e", "d">>), description |-> Str(<<"a", ".", "c">>),
       industry |-> None] }

\* Validated Promotion entities (schemas.py 34-49): an active, tagged one
\* that refers to the second business in lower case, or to none (too short,
\* not hexadecimal), and an inactive, untagged one that refers to the first
\* business in upper case.
PromotionInputs ==
    { [business_id |-> Str(b), title |-> Str(<<"F", "a", "b">>), description |-> None,
       terms |-> None, tags |-> List(<<Str(<<"a", "d">>)>>), is_active |-> Bool(TRUE)]
        : b \in {Render(BusinessId(2)[2]), TooShortId, NonHexId} }
    \cup
    { [business_id |-> Str(Upper(Render(BusinessId(1)[2]))),
       title |-> Str(<<"d", "e", "c">>), description |-> Str(<<"b", ".", "d">>),
       terms |-> None, tags |-> List(<<>>), is_active |-> Bool(FALSE)] }

\* Query parameters of the listing endpoints.
QInputs == { None, Str(<<"c">>) }
ActiveInputs == { Absent, None, Bool(TRUE), Bool(FALSE) }
LimitInputs == { Absent } \cup { <<"int", n>> : n \in 1..MaxLimit }
IsActiveInputs == { None, Bool(TRUE), Bool(FALSE) }

\* list_promotions calls.  Without `active` and with active=None: no other
\* criterion, a text query, all three criteria, an explicit limit.
\* With active=True and active=False: no other criterion.
ListQuery(q, tag, business_id, active, limit) ==
    [q |-> q, tag |-> tag, business_id |-> business_id, active |-> active, limit |-> limit]
ListQueries ==
    UNION { { ListQuery(None, None, None, a, Absent),
              ListQuery(Str(<<"c">>), None, None, a, Absent),
              ListQuery(Str(<<"a">>), Str(<<"a", "d">>), Str(Render(BusinessId(2)[2])),
                        a, Absent) }
            \cup { ListQuery(None, None, None, a, <<"int", n>>) : n \in 1..MaxLimit }
          : a \in {Absent, None} }
    \cup { ListQuery(None, None, None, Bool(a), Absent) : a \in BOOLEAN }

\* `limit: int = default`.
limit_param(limit, default) == IF limit = Absent THEN default ELSE limit[2]

(***************************************************************************)
(* State machine.                                                          *)
(***************************************************************************)
IdleFrame == [op |-> "idle"]
NoResponse == [op |-> "none", status |-> 0, body |-> None]

\* The pure-function harness at rest (the API specification does not use it).
FnRest == fn_pc = "off" /\ fn_in = None /\ fn_out = None

Init ==
    /\ business = <<>>
    /\ promotion = <<>>
    /\ pc = [p \in Procs |-> "idle"]
    /\ frame = [p \in Procs |-> IdleFrame]
    /\ resp = NoResponse
    /\ FnRest

Response(op, status, body) == [op |-> op, status |-> status, body |-> body]
\* raise HTTPException(status_code, detail)
HTTPException(op, status, detail) == Response(op, status, <<"detail", detail>>)

\* A handler step runs once the previous response has left (send_response).
Ready == resp = NoResponse

\* The worker returns to idle.
Return(p) ==
    /\ pc' = [pc EXCEPT ![p] = "idle"]
    /\ frame' = [frame EXCEPT ![p] = IdleFrame]

\* GET /, GET /test, GET /schema: no store write, a fixed payload.
read_root(p) ==
    /\ pc[p] = "idle"
    /\ Ready
    /\ resp' = Response("read_root", 200, <<"static", "message">>)
    /\ UNCHANGED <<business, promotion, pc, frame, fn_vars>>

test_database(p) ==
    /\ pc[p] = "idle"
    /\ Ready
    /\ resp' = Response("test_database", 200, <<"static", "status">>)
    /\ UNCHANGED <<business, promotion, pc, frame, fn_vars>>

get_schema(p) ==
    /\ pc[p] = "idle"
    /\ Ready
    /\ resp' = Response("get_schema", 200, <<"static", "schema">>)
    /\ UNCHANGED <<business, promotion, pc, frame, fn_vars>>

\* POST /api/business
create_business(p, b) ==
    /\ pc[p] = "idle"
    /\ Ready
    /\ Len(business) < MaxBusiness
    /\ LET oid == BusinessId(Len(business) + 1)
       IN /\ business' = create_document(business, oid, b)
          /\ resp' = Response("create_business", 200, Dict([id |-> PyStr(oid)]))
    /\ UNCHANGED <<promotion, pc, frame, fn_vars>>

\* [serialize(d) for d in docs]
SerializeAll(docs) == [i \in 1..Len(docs) |-> Serialized(docs[i])]

\* GET /api/business
list_businesses(p, q, limit) ==
    /\ pc[p] = "idle"
    /\ Ready
    /\ LET docs == get_documents(business, business_filter(q),
                                 limit_param(limit, DefaultBusinessLimit))
       IN resp' = Response("list_businesses", 200, List(SerializeAll(docs)))
    /\ UNCHANGED <<business, promotion, pc, frame, fn_vars>>

\* GET /api/business/{business_id}
get_business(p, business_id) ==
    /\ pc[p] = "idle"
    /\ Ready
    /\ LET r == to_object_id(business_id)
           doc == find_one(business, r[2])
       IN resp' = IF r[1] = "raise" THEN HTTPException("get_business", r[2], r[3])
                  ELSE IF ~Truthy(doc)
                       THEN HTTPException("get_business", 404, "Business not found")
                       ELSE Response("get_business", 200, serialize(doc)[2])
    /\ UNCHANGED <<business, promotion, pc, frame, fn_vars>>

\* GET /api/promotions/{promo_id}
get_promotion(p, promo_id) ==
    /\ pc[p] = "idle"
    /\ Ready
    /\ LET r == to_object_id(promo_id)
           doc == find_one(promotion, r[2])
       IN resp' = IF r[1] = "raise" THEN HTTPException("get_promotion", r[2], r[3])
                  ELSE IF ~Truthy(doc)
                       THEN HTTPException("get_promotion", 404, "Promotion not found")
                       ELSE Response("get_promotion", 200, serialize(doc)[2])
    /\ UNCHANGED <<business, promotion, pc, frame, fn_vars>>

\* Inserts of create_promotion handlers between their check and their insert.
PendingInserts == Cardinality({w \in Procs : pc[w] = "create_promotion_insert"})

\* Variants: no existence check; a check that some business exists.
business_exists_unchecked(oid) == TRUE
business_exists_any(oid) == business # <<>>

\* `db["business"].find_one({"_id": oid})` is truthy (line 105).
business_exists(oid) == Truthy(find_one(business, oid))

\* POST /api/promotions, up to the existence check (lines 103-106).
create_promotion(p, promo) ==
    /\ pc[p] = "idle"
    /\ Ready
    /\ LET r == to_object_id(promo.business_id[2])
       IN IF r[1] = "raise"
          THEN /\ resp' = HTTPException("create_promotion", r[2], r[3])
               /\ UNCHANGED <<pc, frame>>
          ELSE IF ~business_exists(r[2])
          THEN /\ resp' = HTTPException("create_promotion", 400,
                                        "Related business does not exist")
               /\ UNCHANGED <<pc, frame>>
          ELSE /\ Len(promotion) + PendingInserts < MaxPromotion
               /\ pc' = [pc EXCEPT ![p] = "create_promotion_insert"]
               /\ frame' = [frame EXCEPT ![p] = [op |-> "create_promotion", promo |-> promo]]
               /\ UNCHANGED resp
    /\ UNCHANGED <<business, promotion, fn_vars>>

\* POST /api/promotions, the insert (lines 107-108).
create_promotion_insert(p) ==
    /\ pc[p] = "create_promotion_insert"
    /\ Ready
    /\ LET oid == PromotionId(Len(promotion) + 1)
       IN /\ promotion' = create_document(promotion, oid, frame[p].promo)
          /\ resp' = Response("create_promotion", 200, Dict([id |-> PyStr(oid)]))
    /\ Return(p)
    /\ UNCHANGED <<business, fn_vars>>

\* GET /api/promotions, the filter query (lines 112-129).
list_promotions(p, q, tag, business_id, active, limit) ==
    /\ pc[p] = "idle"
    /\ Ready
    /\ LET filter_dict == promotion_filter(q, tag, business_id, active_param(active))
           docs == get_documents(promotion, filter_dict,
                                 limit_param(limit, DefaultPromotionLimit))
       IN frame' = [frame EXCEPT ![p] = [op |-> "list_promotions", docs |-> docs]]
    /\ pc' = [pc EXCEPT ![p] = "list_promotions_join"]
    /\ UNCHANGED <<business, promotion, resp, fn_vars>>

\* db["business"].find({}, {"name": 1, "industry": 1}): _id and the two fields.
Projected(b) == [k \in DOMAIN b \cap {"_id", "name", "industry"} |-> b[k]]

\* {str(b["_id"]): b for b in ...}: a later document replaces an earlier one
\* under the same key.
business_map(coll) ==
    [k \in {PyStr(coll[i]["_id"]) : i \in 1..Len(coll)} |->
        Projected(coll[CHOOSE i \in 1..Len(coll) :
            /\ PyStr(coll[i]["_id"]) = k
            /\ \A j \in 1..Len(coll) : PyStr(coll[j]["_id"]) = k => j <= i])]

\* business_map.get(key)
MapGet(m, k) == IF k \in DOMAIN m THEN Dict(m[k]) ELSE None

\* Variant: the two copied fields are crossed.
enrich_crossed(d, bmap) ==
    LET s == Serialized(d)
        biz == MapGet(bmap, DictGet(s[2], "business_id"))
    IN IF Truthy(biz)
       THEN Dict(("business_name" :> DictGet(biz[2], "industry"))
                 @@ ("industry" :> DictGet(biz[2], "name")) @@ s[2])
       ELSE s

\* The loop body, lines 134-139: the record appended for one document.
enrich(d, bmap) ==
    LET s == Serialized(d)
        biz == MapGet(bmap, DictGet(s[2], "business_id"))
    IN IF Truthy(biz)
       THEN Dict(("business_name" :> DictGet(biz[2], "name"))
                 @@ ("industry" :> DictGet(biz[2], "industry")) @@ s[2])
       ELSE s

\* Variant: a promotion whose business is not in the map is skipped.
enriched_hits_only(docs, bmap) ==
    LET Hit(d) == PyStr(d.business_id) \in DOMAIN bmap
        hits == SelectSeq(docs, Hit)
    IN [i \in 1..Len(hits) |-> enrich(hits[i], bmap)]

\* Lines 132-140: the enriched list.
enriched(docs, bmap) == [i \in 1..Len(docs) |-> enrich(docs[i], bmap)]

\* GET /api/promotions, the business fetch and the join (lines 131-140).
list_promotions_join(p) ==
    /\ pc[p] = "list_promotions_join"
    /\ Ready
    /\ resp' = Response("list_promotions", 200,
                        List(enriched(frame[p].docs, business_map(business))))
    /\ Return(p)
    /\ UNCHANGED <<business, promotion, fn_vars>>

\* Variant: is_active is set without the None test.
update_fields_unchecked(is_active) == [is_active |-> is_active]

\* Lines 153-155: the fields to set, an empty dict when none is given.
update_fields(is_active) ==
    IF is_active # None THEN [is_active |-> is_active] ELSE <<>>

\* Variant: update_many over an empty filter.
update_many(coll, oid, update) == [i \in 1..Len(coll) |-> update @@ coll[i]]

\* update_one({"_id": oid}, {"$set": update}): the first match gets the fields.
update_one(coll, oid, update) ==
    LET first == CHOOSE i \in 1..Len(coll) :
                     coll[i]["_id"] = oid /\ \A j \in 1..(i - 1) : coll[j]["_id"] # oid
    IN [coll EXCEPT ![first] = update @@ coll[first]]

\* res.matched_count
matched_count(coll, oid) == IF \E i \in 1..Len(coll) : coll[i]["_id"] = oid THEN 1 ELSE 0

\* PATCH /api/promotions/{promo_id}, up to the update (lines 152-160).
update_promotion_status(p, promo_id, is_active) ==
    /\ pc[p] = "idle"
    /\ Ready
    /\ LET update == update_fields(is_active)
           r == to_object_id(promo_id)
       IN IF ~Truthy(Dict(update))
          THEN /\ resp' = HTTPException("update_promotion_status", 400, "No fields to update")
               /\ UNCHANGED <<promotion, pc, frame>>
          ELSE IF r[1] = "raise"
          THEN /\ resp' = HTTPException("update_promotion_status", r[2], r[3])
               /\ UNCHANGED <<promotion, pc, frame>>
          ELSE IF matched_count(promotion, r[2]) = 0
          THEN /\ resp' = HTTPException("update_promotion_status", 404, "Promotion not found")
               /\ UNCHANGED <<promotion, pc, frame>>
          ELSE /\ promotion' = update_one(promotion, r[2], update)
               /\ pc' = [pc EXCEPT ![p] = "update_promotion_find"]
               /\ frame' = [frame EXCEPT ![p] =
                               [op |-> "update_promotion_status", promo_id |-> promo_id]]
               /\ UNCHANGED resp
    /\ UNCHANGED <<business, fn_vars>>

\* PATCH /api/promotions/{promo_id}, the read-back (lines 161-162).
update_promotion_find(p) ==
    /\ pc[p] = "update_promotion_find"
    /\ Ready
    /\ LET updated == find_one(promotion, to_object_id(frame[p].promo_id)[2])
       IN resp' = Response("update_promotion_status", 200, serialize(updated)[2])
    /\ Return(p)
    /\ UNCHANGED <<business, promotion, fn_vars>>

\* The framework sends the handler's result to the caller.
send_response ==
    /\ resp # NoResponse
    /\ resp' = NoResponse
    /\ UNCHANGED <<business, promotion, pc, frame, fn_vars>>

Next ==
    \/ send_response
    \/ \E p \in Procs :
        \/ read_root(p)
        \/ test_database(p)
        \/ get_schema(p)
        \/ \E b \in BusinessInputs : create_business(p, b)
        \/ \E q \in QInputs, limit \in LimitInputs : list_businesses(p, q, limit)
        \/ \E id \in BusinessIdStrings : get_business(p, id)
        \/ \E promo \in PromotionInputs : create_promotion(p, promo)
        \/ create_promotion_insert(p)
        \/ \E c \in ListQueries :
               list_promotions(p, c.q, c.tag, c.business_id, c.active, c.limit)
        \/ list_promotions_join(p)
        \/ \E id \in PromotionIdStrings : get_promotion(p, id)
        \/ \E id \in PromotionIdStrings, v \in IsActiveInputs :
               update_promotion_status(p, id, v)
        \/ update_promotion_find(p)

Spec == Init /\ [][Next]_vars

(***************************************************************************)
(* Pure functions, applied to inputs drawn from bounded sets.              *)
(***************************************************************************)
ApiRest ==
    /\ business = <<>>
    /\ promotion = <<>>
    /\ pc = [p \in Procs |-> "idle"]
    /\ frame = [p \in Procs |-> IdleFrame]
    /\ resp = NoResponse

\* All dictionaries over some of the keys, each key with one of its values.
DictsOver(values) ==
    UNION { [K -> UNION {values[k] : k \in K}] : K \in SUBSET DOMAIN values }

WellTyped(d, values) == \A k \in DOMAIN d : d[k] \in values[k]

\* Documents given to serialize: none, empty, raw (with _id), normalized
\* (with id), with and without a datetime value.
SerializeValues ==
    [_id |-> {Oid(IdBase), Oid(IdBase + 1)},
     id |-> {Str(Render(IdBase))},
     name |-> {Str(<<"A", "c", "e">>)},
     created_at |-> {DateTime(1)},
     is_active |-> {Bool(TRUE), Bool(FALSE)}]
SerializeInputs ==
    {None} \cup {Dict(d) : d \in {x \in DictsOver(SerializeValues) :
                                     WellTyped(x, SerializeValues)}}

InitSerialize ==
    /\ ApiRest
    /\ fn_pc = "in"
    /\ fn_in \in SerializeInputs
    /\ fn_out = None

\* serialize(doc)
apply_serialize ==
    /\ fn_pc = "in"
    /\ fn_out' = serialize(fn_in)
    /\ fn_pc' = "out"
    /\ UNCHANGED <<fn_in, api_vars>>

\* serialize(serialize(doc)): the normalizer applied to its own result.
apply_serialize_again ==
    /\ fn_pc = "out"
    /\ fn_out[1] = "return"
    /\ fn_in' = fn_out[2]
    /\ fn_out' = serialize(fn_out[2])
    /\ fn_pc' = "again"
    /\ UNCHANGED api_vars

NextSerialize == apply_serialize \/ apply_serialize_again

SpecSerialize == InitSerialize /\ [][NextSerialize]_vars

\* Criteria and documents given to the filter compilers.
CriterionStrings == { None, Str(<<>>), Str(<<"c">>), Str(<<"A">>), Str(<<".">>),
                      Str(<<"a", "d">>), Str(<<"b", ".", "d">>) }
FilterTags == { None, Str(<<>>), Str(<<"a", "d">>), Str(<<"A", "d">>) }
FilterBusinessIds == { None, Str(<<>>), Str(Render(IdBase)), Str(Upper(Render(IdBase))) }

PromotionDocs ==
    { [_id |-> PromotionId(1), business_id |-> Str(b), title |-> Str(t),
       description |-> d, terms |-> None, tags |-> g, is_active |-> Bool(a)]
        : b \in {Render(IdBase), Upper(Render(IdBase))},
          t \in {<<"F", "a", "b">>, <<"d", "e", "c">>},
          d \in {None, Str(<<"b", ".", "d">>)},
          g \in {None, List(<<>>), List(<<Str(<<"a", "d">>), Str(<<"c">>)>>)},
          a \in BOOLEAN }

BusinessDocs ==
    { [_id |-> BusinessId(1), name |-> Str(n), description |-> d, industry |-> i]
        : n \in {<<"A", "c", "e">>, <<"B", "e", "d">>},
          d \in {None, Str(<<"a", ".", "c">>)},
          i \in {None, Str(<<"f", "a", "b">>)} }

InitFilter ==
    /\ ApiRest
    /\ fn_pc = "in"
    /\ fn_out = None
    /\ \/ \E q \in CriterionStrings, tag \in FilterTags, bid \in FilterBusinessIds,
             active \in ActiveInputs, d \in PromotionDocs :
              fn_in = [endpoint |-> "list_promotions", q |-> q, tag |-> tag,
                       business_id |-> bid, active |-> active, doc |-> d]
       \/ \E q \in CriterionStrings, d \in BusinessDocs :
              fn_in = [endpoint |-> "list_businesses", q |-> q, doc |-> d]

\* The filter list_promotions compiles, and whether the store matches the
\* document under it.
apply_promotion_filter ==
    /\ fn_pc = "in"
    /\ fn_in.endpoint = "list_promotions"
    /\ LET f == promotion_filter(fn_in.q, fn_in.tag, fn_in.business_id,
                                 active_param(fn_in.active))
       IN fn_out' = [filter |-> f, hit |-> Match(f, fn_in.doc)]
    /\ fn_pc' = "out"
    /\ UNCHANGED <<fn_in, api_vars>>

\* The same for list_businesses.
apply_business_filter ==
    /\ fn_pc = "in"
    /\ fn_in.endpoint = "list_businesses"
    /\ LET f == business_filter(fn_in.q)
       IN fn_out' = [filter |-> f, hit |-> Match(f, fn_in.doc)]
    /\ fn_pc' = "out"
    /\ UNCHANGED <<fn_in, api_vars>>

NextFilter == apply_promotion_filter \/ apply_business_filter

SpecFilter == InitFilter /\ [][NextFilter]_vars

(***************************************************************************)
(* Claims.                                                                 *)
(***************************************************************************)
\* Case-insensitive substring test, by definition.
ContainsCI(v, q) ==
    /\ IsStr(v)
    /\ \E off \in 0..(Len(v[2]) - Len(q[2])) :
           \A j \in 1..Len(q[2]) : LowerChar(v[2][off + j]) = LowerChar(q[2][j])

\* A criterion is supplied when the caller gave a non-empty value.
Supplied(c) == c # None /\ c # Str(<<>>)

\* The per-criterion tests of the supplied criteria, conjoined.
ExpectedPromotionHit(i) ==
    /\ Supplied(i.q) =>
           \/ ContainsCI(i.doc.title, i.q)
           \/ ContainsCI(i.doc.description, i.q)
           \/ ContainsCI(i.doc.terms, i.q)
    /\ Supplied(i.tag) =>
           IsList(i.doc.tags) /\ \E k \in 1..Len(i.doc.tags[2]) : i.doc.tags[2][k] = i.tag
    /\ Supplied(i.business_id) => i.doc.business_id = i.business_id
    /\ active_param(i.active) # None => i.doc.is_active = active_param(i.active)

ExpectedBusinessHit(i) ==
    Supplied(i.q) =>
        \/ ContainsCI(i.doc.name, i.q)
        \/ ContainsCI(i.doc.description, i.q)
        \/ ContainsCI(i.doc.industry, i.q)

\* C2: for every combination of supplied and absent criteria the compiled
\* filter matches a document exactly when the document passes the test of
\* every supplied criterion (q: case-insensitive substring of one of the three
\* text fields; tag: member of tags; business_id: equal; active: equal to
\* is_active), and with no criterion the filter is empty.
C2_FilterIsConjunction ==
    fn_pc = "out" =>
        IF fn_in.endpoint = "list_promotions"
        THEN /\ fn_out.hit <=> ExpectedPromotionHit(fn_in)
             /\ (~Supplied(fn_in.q) /\ ~Supplied(fn_in.tag) /\ ~Supplied(fn_in.business_id)
                 /\ fn_in.active = None) => fn_out.filter = EmptyFilter
        ELSE /\ fn_out.hit <=> ExpectedBusinessHit(fn_in)
             /\ ~Supplied(fn_in.q) => fn_out.filter = EmptyFilter

\* C7: serialize applied to a document without _id (in particular to its own
\* result) raises nothing and returns the document unchanged.
C7_SerializeWithoutIdPassesThrough ==
    (fn_pc \in {"out", "again"} /\ (fn_in = None \/ "_id" \notin DOMAIN fn_in[2]))
        => fn_out = <<"return", fn_in>>

\* Some document of the collection has this identifier string's ObjectId.
Identifies(coll, id_str) ==
    /\ ObjectIdValid(id_str)
    /\ \E i \in 1..Len(coll) : coll[i]["_id"] = Oid(HexValue(id_str))

\* What every first step of handler `op` by worker p shows: the worker was
\* idle, and the step answers as `op` or moves the worker to `next`.
StepOf(p, op, next) ==
    /\ pc[p] = "idle"
    /\ resp = NoResponse
    /\ resp'.op = op \/ pc'[p] = next

\* The request ended with this error and wrote nothing.
Rejected(p, op, status, detail) ==
    /\ resp' = [op |-> op, status |-> status, body |-> <<"detail", detail>>]
    /\ pc'[p] = "idle"
    /\ business' = business
    /\ promotion' = promotion

\* C1: create_promotion with a well-formed business_id that matches no
\* business fails with HTTP 400 (the referential violation) and inserts no
\* promotion.
C1_MissingBusinessRejected ==
    [][\A p \in Procs, promo \in PromotionInputs :
          (/\ StepOf(p, "create_promotion", "create_promotion_insert")
           /\ ObjectIdValid(promo.business_id[2])
           /\ ~Identifies(business, promo.business_id[2])
           /\ create_promotion(p, promo))
          => Rejected(p, "create_promotion", 400, "Related business does not exist")]_vars

\* C1 happens: the referential violation was answered while businesses exist.
C1_Witness ==
    /\ resp = [op |-> "create_promotion", status |-> 400,
               body |-> <<"detail", "Related business does not exist">>]
    /\ business # <<>>

\* The criteria other than `active`, as the store evaluates their clauses.
OtherCriteria(c, d) ==
    Match(And(q_clauses(c.q) \o tag_clauses(c.tag) \o business_id_clauses(c.business_id)), d)

\* The identifiers of a list of documents or records, as strings, in order.
RawIds(docs) == [i \in 1..Len(docs) |-> PyStr(docs[i]["_id"])]
RecordIds(records) == [i \in 1..Len(records) |-> records[i][2]["id"]]

\* C3: list_promotions without `active` queries, and returns, only promotions
\* whose is_active is true; with active=None it applies no is_active clause:
\* the promotions that satisfy the other criteria are returned whatever their
\* is_active (up to the limit, in store order).
C3_ActiveDefaultsToTrue ==
    [][/\ \A p \in Procs, c \in ListQueries :
            (/\ pc[p] = "idle" /\ pc'[p] = "list_promotions_join"
             /\ c.active \in {Absent, None}
             /\ list_promotions(p, c.q, c.tag, c.business_id, c.active, c.limit)) =>
                LET docs == frame'[p].docs
                    lim == limit_param(c.limit, DefaultPromotionLimit)
                    Other(d) == OtherCriteria(c, d)
                    OtherAndActive(d) == OtherCriteria(c, d) /\ d.is_active = Bool(TRUE)
                IN /\ c.active = Absent =>
                          docs = Take(SelectSeq(promotion, OtherAndActive), lim)
                   /\ c.active = None =>
                          docs = Take(SelectSeq(promotion, Other), lim)
       /\ \A p \in Procs :
            (/\ pc[p] = "list_promotions_join" /\ pc'[p] = "idle"
             /\ list_promotions_join(p)) =>
                /\ resp'.status = 200
                /\ RecordIds(resp'.body[2]) = RawIds(frame[p].docs)
                /\ \A i \in 1..Len(frame[p].docs) :
                       resp'.body[2][i][2].is_active = frame[p].docs[i].is_active]_vars

\* C3 happens: a listing returned an active and an inactive promotion.
C3_Witness ==
    /\ resp.op = "list_promotions"
    /\ \E i, j \in 1..Len(resp.body[2]) :
           /\ resp.body[2][i][2].is_active = Bool(TRUE)
           /\ resp.body[2][j][2].is_active = Bool(FALSE)

\* C4: every returned promotion whose business_id is the string form of the
\* _id of a business in the store carries that business's name as
\* business_name and its industry as industry; the returned list holds the
\* promotions the filter query produced, in the same order, with their fields.
C4_EnrichedFromBusiness ==
    [][\A p \in Procs :
          list_promotions_join(p) =>
              LET docs == frame[p].docs
                  out == resp'.body[2]
              IN /\ resp'.op = "list_promotions" /\ resp'.status = 200
                 /\ RecordIds(out) = RawIds(docs)
                 /\ \A i \in 1..Len(docs) :
                        /\ \A k \in DOMAIN docs[i] \ {"_id"} : out[i][2][k] = docs[i][k]
                        /\ \A j \in 1..Len(business) :
                               docs[i].business_id = PyStr(business[j]["_id"]) =>
                                   /\ {"business_name", "industry"} \subseteq DOMAIN out[i][2]
                                   /\ out[i][2].business_name = business[j].name
                                   /\ out[i][2].industry = business[j].industry]_vars

\* C4 happens: a listing returned a promotion of the second business, enriched.
C4_Witness ==
    /\ resp.op = "list_promotions"
    /\ Len(business) = 2
    /\ \E i \in 1..Len(resp.body[2]) :
           /\ resp.body[2][i][2].business_id = PyStr(business[2]["_id"])
           /\ "business_name" \in DOMAIN resp.body[2][i][2]

\* C5: every returned promotion whose business_id is the key of no business
\* in the store is returned, in its place, without business_name and industry,
\* and the listing succeeds.
C5_EnrichmentMissIsSilent ==
    [][\A p \in Procs :
          list_promotions_join(p) =>
              LET docs == frame[p].docs
                  out == resp'.body[2]
              IN /\ resp'.status = 200
                 /\ Len(out) = Len(docs)
                 /\ \A i \in 1..Len(docs) :
                        (\A j \in 1..Len(business) :
                             docs[i].business_id # PyStr(business[j]["_id"]))
                        => /\ out[i][2]["id"] = PyStr(docs[i]["_id"])
                           /\ DOMAIN out[i][2] \cap {"business_name", "industry"} = {}]_vars

\* C5 happens: a listing returned a promotion without the two fields.
C5_Witness ==
    /\ resp.op = "list_promotions" /\ resp.status = 200
    /\ \E i \in 1..Len(resp.body[2]) :
           /\ "business_name" \notin DOMAIN resp.body[2][i][2]
           /\ \A j \in 1..Len(business) :
                  resp.body[2][i][2].business_id # PyStr(business[j]["_id"])

\* C6: update_promotion_status with is_active unset fails with HTTP 400
\* "No fields to update" whatever the identifier, malformed ones included,
\* and touches nothing; with is_active set and a well-formed identifier of no
\* promotion it fails with HTTP 404 and changes no document.
C6_UpdateValidatedFirst ==
    [][\A p \in Procs, id \in PromotionIdStrings, v \in IsActiveInputs :
          (/\ StepOf(p, "update_promotion_status", "update_promotion_find")
           /\ update_promotion_status(p, id, v)) =>
              /\ v = None =>
                     Rejected(p, "update_promotion_status", 400, "No fields to update")
              /\ (v # None /\ ObjectIdValid(id) /\ ~Identifies(promotion, id)) =>
                     Rejected(p, "update_promotion_status", 404, "Promotion not found")]_vars

\* C6 happens: the validation failure was answered.
C6_Witness ==
    /\ resp = [op |-> "update_promotion_status", status |-> 400,
               body |-> <<"detail", "No fields to update">>]
    /\ promotion # <<>>

\* C8: get_business, get_promotion, create_promotion and
\* update_promotion_status fail with HTTP 400 on an identifier string that
\* does not parse, and write nothing.
C8_MalformedIdRejected ==
    [][\A p \in Procs :
          LET Refused(op) ==
                  /\ resp'.op = op /\ resp'.status = 400
                  /\ pc'[p] = "idle"
                  /\ business' = business /\ promotion' = promotion
          IN /\ \A id \in BusinessIdStrings :
                    (/\ StepOf(p, "get_business", "idle")
                     /\ ~ObjectIdValid(id)
                     /\ get_business(p, id)) => Refused("get_business")
             /\ \A id \in PromotionIdStrings :
                    (/\ StepOf(p, "get_promotion", "idle")
                     /\ ~ObjectIdValid(id)
                     /\ get_promotion(p, id)) => Refused("get_promotion")
             /\ \A promo \in PromotionInputs :
                    (/\ StepOf(p, "create_promotion", "create_promotion_insert")
                     /\ ~ObjectIdValid(promo.business_id[2])
                     /\ create_promotion(p, promo)) => Refused("create_promotion")
             /\ \A id \in PromotionIdStrings, v \in IsActiveInputs :
                    (/\ StepOf(p, "update_promotion_status", "update_promotion_find")
                     /\ ~ObjectIdValid(id)
                     /\ update_promotion_status(p, id, v))
                        => Refused("update_promotion_status")]_vars

\* C8 happens: a malformed identifier was refused while documents exist.
C8_Witness ==
    /\ resp.status = 400
    /\ resp.body = <<"detail", "Invalid id format">>
    /\ resp.op = "update_promotion_status"
    /\ promotion # <<>>

\* Existing documents of a collection keep every field, except the listed ones.
FieldsKept(old, new, except) ==
    /\ Len(new) >= Len(old)
    /\ Len(new) <= Len(old) + 1
    /\ \A i \in 1..Len(old) :
           /\ DOMAIN new[i] = DOMAIN old[i]
           /\ \A k \in DOMAIN old[i] \ except : new[i][k] = old[i][k]

\* C9: a successful update_promotion_status(promo_id, is_active=v) sets
\* is_active of the promotion promo_id identifies to v and changes nothing
\* else; no other step changes a field of an existing promotion or business,
\* and a step adds at most one document.
C9_OnlyTheActiveFlagChanges ==
    [][/\ FieldsKept(business, business', {})
       /\ FieldsKept(promotion, promotion', {"is_active"})
       /\ \A i \in 1..Len(promotion) :
              promotion'[i].is_active # promotion[i].is_active =>
                  \E p \in Procs, id \in PromotionIdStrings, v \in {Bool(TRUE), Bool(FALSE)} :
                      /\ update_promotion_status(p, id, v)
                      /\ promotion[i]["_id"] = Oid(HexValue(id))
                      /\ promotion'[i].is_active = v
       /\ \A p \in Procs, id \in PromotionIdStrings, v \in {Bool(TRUE), Bool(FALSE)} :
              (/\ pc[p] = "idle" /\ pc'[p] = "update_promotion_find"
               /\ update_promotion_status(p, id, v)) =>
                  /\ business' = business
                  /\ Len(promotion') = Len(promotion)
                  /\ \A i \in 1..Len(promotion) :
                         IF promotion[i]["_id"] = Oid(HexValue(id))
                         THEN promotion'[i].is_active = v
                         ELSE promotion'[i] = promotion[i]]_vars

\* C9 happens: of two promotions, the one created active has been deactivated.
C9_Witness ==
    /\ Len(promotion) = 2
    /\ \E i \in 1..2 :
           /\ promotion[i].title = Str(<<"F", "a", "b">>)
           /\ promotion[i].is_active = Bool(FALSE)
    /\ \E p \in Procs : pc[p] = "update_promotion_find"

\* C10: in every reachable state, whatever the interleaving of the handlers'
\* store calls, the business_id of every promotion parses to the _id of a
\* business in the store.
C10_PromotionsReferenceBusinesses ==
    \A i \in 1..Len(promotion) : Identifies(business, promotion[i].business_id[2])

\* C10 happens: a promotion is stored while one worker is between its
\* existence check and its insert and the other is inside a handler too.
C10_Witness ==
    /\ promotion # <<>>
    /\ \E p, w \in Procs :
           /\ p # w
           /\ pc[p] = "create_promotion_insert"
           /\ pc[w] \in {"update_promotion_find", "list_promotions_join",
                         "create_promotion_insert"}

====
